---- MODULE Spec2Model ----
(***************************************************************************)
(* Model of src/pacman/generator.go: the build.Generator for Pacman        *)
(* packages.  A Go string is a sequence of one-character strings, so that  *)
(* formatting, prefix tests and sorting are computed as the code computes  *)
(* them.                                                                   *)
(***************************************************************************)
EXTENDS Integers, Sequences, FiniteSets, TLC

VARIABLES pkg, tree, ret, prevRet, pre, steps, builds, fileName, markers

vars == <<pkg, tree, ret, prevRet, pre, steps, builds, fileName, markers>>

(***************************************************************************)
(* Bounds of the model.                                                    *)
(***************************************************************************)
\* number of Build calls on one Package
MaxBuilds == 2
\* epochs range over 0..MaxEpoch
MaxEpoch == 2
\* releases range over 0..MaxRelease, and one of two digits
MaxRelease == 2
\* trees of up to MaxListed entries are also listed in every order, not only
\* in the orders of a walk
MaxListed == 5

None == "none"

(***************************************************************************)
(* Strings.                                                                *)
(***************************************************************************)
\* the characters in use, in ascending byte order
Ascii == <<"\t","\n"," ","!","#","(",")","+","-",".","/","0","1","2","3","4","5","6","7","8","9",":","<","=",">","@","A","B","C","D","E","F","G","H","I","J","K","L","M","N","O","P","Q","R","S","T","U","V","W","X","Y","Z","_","a","b","c","d","e","f","g","h","i","j","k","l","m","n","o","p","q","r","s","t","u","v","w","x","y","z","{","}">>

\* the rank of each character in byte order
Rank == [c \in {Ascii[i] : i \in 1..Len(Ascii)} |-> CHOOSE i \in 1..Len(Ascii) : Ascii[i] = c]

Code(c) == Rank[c]

Digits == <<"0","1","2","3","4","5","6","7","8","9">>
Lower == {Ascii[i] : i \in Code("a")..Code("z")}
Upper == {Ascii[i] : i \in Code("A")..Code("Z")}
Digit == {Ascii[i] : i \in Code("0")..Code("9")}
Space == {" ", "\t", "\n"}

\* fmt's %d of a non-negative integer
RECURSIVE Dec(_)
Dec(n) == IF n < 10 THEN <<Digits[n + 1]>> ELSE Dec(n \div 10) \o <<Digits[(n % 10) + 1]>>

\* strings.HasPrefix
HasPrefix(s, p) == Len(s) >= Len(p) /\ SubSeq(s, 1, Len(p)) = p

\* Go's < on strings: bytewise lexicographic
RECURSIVE Less(_, _)
Less(a, b) ==
  IF b = <<>> THEN FALSE
  ELSE IF a = <<>> THEN TRUE
  ELSE IF Head(a) = Head(b) THEN Less(Tail(a), Tail(b))
  ELSE Code(Head(a)) < Code(Head(b))

\* insert a string into an ascending list
RECURSIVE Insert(_, _)
Insert(x, sorted) ==
  IF sorted = <<>> THEN <<x>>
  ELSE IF Less(x, Head(sorted)) THEN <<x>> \o sorted
  ELSE <<Head(sorted)>> \o Insert(x, Tail(sorted))

\* sort.Strings
RECURSIVE SortStrings(_)
SortStrings(lines) ==
  IF lines = <<>> THEN <<>> ELSE Insert(Head(lines), SortStrings(Tail(lines)))

\* strings.Join(lines, "")
RECURSIVE Join(_)
Join(lines) == IF lines = <<>> THEN <<>> ELSE Head(lines) \o Join(Tail(lines))

\* strings.TrimSpace
RECURSIVE TrimLeft(_)
TrimLeft(s) == IF s # <<>> /\ Head(s) \in Space THEN TrimLeft(Tail(s)) ELSE s

RECURSIVE TrimRight(_)
TrimRight(s) ==
  IF s # <<>> /\ s[Len(s)] \in Space THEN TrimRight(SubSeq(s, 1, Len(s) - 1)) ELSE s

TrimSpace(s) == TrimRight(TrimLeft(s))

\* regexp.MustCompile(`\s+`).ReplaceAllString(s, " ")
RECURSIVE CollapseSpace(_)
CollapseSpace(s) ==
  IF s = <<>> THEN <<>>
  ELSE IF Head(s) \in Space THEN <<" ">> \o CollapseSpace(TrimLeft(s))
  ELSE <<Head(s)>> \o CollapseSpace(Tail(s))

(***************************************************************************)
(* The grammars handed to ValidateWith.                                    *)
(***************************************************************************)
NameFirst == Lower \cup Digit \cup {"@", ".", "_", "+"}
NameRest == NameFirst \cup {"-"}
VersionChar == Lower \cup Upper \cup Digit \cup {".", "_"}

All(s, class) == \A i \in 1..Len(s) : s[i] \in class

\* nameRx: [a-z0-9@._+][a-z0-9@._+-]*
nameRx(s) == s # <<>> /\ s[1] \in NameFirst /\ All(Tail(s), NameRest)

\* versionRx: [a-zA-Z0-9._]+
versionRx(s) == s # <<>> /\ All(s, VersionChar)

StripPrefix(s, p) == IF HasPrefix(s, p) THEN SubSeq(s, Len(p) + 1, Len(s)) ELSE s

\* RelatedName: (?:except:)?(?:group:)?nameRx
RelatedName(s) ==
  \/ nameRx(s)
  \/ HasPrefix(s, <<"e","x","c","e","p","t",":">>) /\ nameRx(StripPrefix(s, <<"e","x","c","e","p","t",":">>))
  \/ HasPrefix(s, <<"g","r","o","u","p",":">>) /\ nameRx(StripPrefix(s, <<"g","r","o","u","p",":">>))
  \/ HasPrefix(s, <<"e","x","c","e","p","t",":","g","r","o","u","p",":">>) /\ nameRx(StripPrefix(s, <<"e","x","c","e","p","t",":","g","r","o","u","p",":">>))

\* (?:[0-9]+:)?
EpochPart(s) == s = <<>> \/ (Len(s) >= 2 /\ s[Len(s)] = ":" /\ All(SubSeq(s, 1, Len(s) - 1), Digit))

\* (?:-[1-9][0-9]*)?
ReleasePart(s) ==
  s = <<>> \/ (Len(s) >= 2 /\ s[1] = "-" /\ s[2] \in (Digit \ {"0"}) /\ All(SubSeq(s, 3, Len(s)), Digit))

\* RelatedVersion: (?:[0-9]+:)?versionRx(?:-[1-9][0-9]*)?
RelatedVersion(s) ==
  \E i \in 0..Len(s) : \E j \in i..Len(s) :
    /\ EpochPart(SubSeq(s, 1, i))
    /\ versionRx(SubSeq(s, i + 1, j))
    /\ ReleasePart(SubSeq(s, j + 1, Len(s)))

(***************************************************************************)
(* Architectures.                                                          *)
(***************************************************************************)
archMap ==
  [a \in {"ArchitectureAny", "ArchitectureI386", "ArchitectureX86_64", "ArchitectureARMv5",
          "ArchitectureARMv6h", "ArchitectureARMv7h", "ArchitectureAArch64"} |->
     CASE a = "ArchitectureAny" -> <<"a","n","y">>
       [] a = "ArchitectureI386" -> <<"i","6","8","6">>
       [] a = "ArchitectureX86_64" -> <<"x","8","6","_","6","4">>
       [] a = "ArchitectureARMv5" -> <<"a","r","m">>
       [] a = "ArchitectureARMv6h" -> <<"a","r","m","v","6","h">>
       [] a = "ArchitectureARMv7h" -> <<"a","r","m","v","7","h">>
       [] a = "ArchitectureAArch64" -> <<"a","a","r","c","h","6","4">>]

\* archMap[pkg.Architecture]: a Go map yields the zero value for a missing key
ArchString(a) == IF a \in DOMAIN archMap THEN archMap[a] ELSE <<>>

(***************************************************************************)
(* fullVersionString                                                       *)
(***************************************************************************)
\* fullVersionString with the epoch written whenever it is not negative
fullVersionString_AlwaysEpoch(p) ==
  Dec(p.Epoch) \o <<":">> \o p.Version \o <<"-">> \o Dec(p.Release)

fullVersionString(p) ==
  LET str == p.Version \o <<"-">> \o Dec(p.Release)
  IN IF p.Epoch > 0 THEN Dec(p.Epoch) \o <<":">> \o str ELSE str

\* RecommendedFileName formatting version and release itself, without the epoch
RecommendedFileName_NoEpoch(p) ==
  p.Name \o <<"-">> \o p.Version \o <<"-">> \o Dec(p.Release) \o <<"-">> \o ArchString(p.Architecture)
  \o <<".","p","k","g",".","t","a","r",".","x","z">>

\* RecommendedFileName
RecommendedFileName(p) ==
  p.Name \o <<"-">> \o fullVersionString(p) \o <<"-">> \o ArchString(p.Architecture) \o <<".","p","k","g",".","t","a","r",".","x","z">>

(***************************************************************************)
(* The payload tree: pkg.FSRoot, as the mapping from relative path to Node *)
(* that the tree walk presents.                                            *)
(***************************************************************************)
RegularFile(content, mode) == [Type |-> "RegularFile", Content |-> content, Mode |-> mode]
Directory == [Type |-> "Directory", Content |-> <<>>, Mode |-> 493]
Symlink(target) == [Type |-> "Symlink", Content |-> target, Mode |-> 511]

\* pkg.FSRoot.Entries[path] = node
Put(t, path, node) == [p \in (DOMAIN t) \cup {path} |-> IF p = path THEN node ELSE t[p]]

PKGINFO == <<".","P","K","G","I","N","F","O">>
INSTALL == <<".","I","N","S","T","A","L","L">>
MTREE == <<".","M","T","R","E","E">>

\* the directory a path lies in; <<>> for a top-level path
RECURSIVE Parent(_)
Parent(path) ==
  IF path = <<>> THEN <<>>
  ELSE IF path[Len(path)] = "/" THEN SubSeq(path, 1, Len(path) - 1)
  ELSE Parent(SubSeq(path, 1, Len(path) - 1))

\* the orders in which the elements of a set can be listed
RECURSIVE Perms(_)
Perms(S) ==
  IF S = {} THEN {<<>>} ELSE UNION {{<<x>> \o o : o \in Perms(S \ {x})} : x \in S}

\* the orders in which a walk can visit what lies in directory dir, among the
\* paths S: each entry, then what lies in it, the entries in any order
RECURSIVE Walks(_, _)
RECURSIVE WalkEntries(_, _)
WalkEntries(S, entries) ==
  IF entries = <<>> THEN {<<>>}
  ELSE {<<Head(entries)>> \o inner \o rest :
          inner \in Walks(S, Head(entries)), rest \in WalkEntries(S, Tail(entries))}

Walks(S, dir) == UNION {WalkEntries(S, entries) : entries \in Perms({y \in S : Parent(y) = dir})}

\* pkg.WalkFSWithRelativePaths
WalkOrders(t) == Walks(DOMAIN t, <<>>)

\* the elements of a set of strings, ascending
RECURSIVE Ascending(_)
Ascending(S) ==
  IF S = {} THEN <<>>
  ELSE LET x == CHOOSE y \in S : TRUE IN Insert(x, Ascending(S \ {x}))

\* the paths of the tree, ascending
SortedPaths(t) == Ascending(DOMAIN t)

\* pkg.FSRoot.InstalledSizeInBytes
RECURSIVE SizeOf(_, _)
SizeOf(t, S) ==
  IF S = {} THEN 0
  ELSE LET p == CHOOSE x \in S : TRUE
       IN (IF t[p].Type = "RegularFile" THEN Len(t[p].Content) ELSE 0) + SizeOf(t, S \ {p})

InstalledSizeInBytes(t) == SizeOf(t, DOMAIN t)

\* pkg.PrepareBuild
PrepareBuild(t) == t

(***************************************************************************)
(* compileBackupMarkers                                                    *)
(***************************************************************************)
HoloPrefix == <<"u","s","r","/","s","h","a","r","e","/","h","o","l","o","/">>

\* the callback of the walk, entry by entry
RECURSIVE BackupLines(_, _)
BackupLines(t, order) ==
  IF order = <<>> THEN <<>>
  ELSE LET path == Head(order)
           rest == BackupLines(t, Tail(order))
       IN IF t[path].Type # "RegularFile" THEN rest
          ELSE IF ~HasPrefix(path, HoloPrefix) THEN <<<<"b","a","c","k","u","p"," ","="," ">> \o path \o <<"\n">>>> \o rest
          ELSE rest

\* compileBackupMarkers without the sort.Strings call
compileBackupMarkers_Unsorted(t, order) == Join(BackupLines(t, order))

compileBackupMarkers(t, order) == Join(SortStrings(BackupLines(t, order)))

\* what compileBackupMarkers can return for the tree, over the orders of the walk
BackupMarkerOutputs(t) == {compileBackupMarkers(t, o) : o \in WalkOrders(t)}

(***************************************************************************)
(* compilePackageRequirements                                              *)
(***************************************************************************)
Relation(name, op, version) == [Name |-> name, Op |-> op, Version |-> version]

RelationOK(r) == RelatedName(r.Name) /\ (r.Op = <<>> \/ RelatedVersion(r.Version))

RECURSIVE RelationLines(_, _)
RelationLines(label, rels) ==
  IF rels = <<>> THEN <<>>
  ELSE label \o <<" ","="," ">> \o Head(rels).Name \o Head(rels).Op \o Head(rels).Version \o <<"\n">>
       \o RelationLines(label, Tail(rels))

compilePackageRequirements(label, rels) ==
  IF \E i \in 1..Len(rels) : ~RelationOK(rels[i])
  THEN [err |-> "ValidationError", text |-> <<>>]
  ELSE [err |-> None, text |-> RelationLines(label, rels)]

(***************************************************************************)
(* writePKGINFO                                                            *)
(***************************************************************************)
\* the lines up to the relationship blocks
PKGINFOHead(p, t) ==
  LET desc == CollapseSpace(TrimSpace(p.Description))
  IN <<"#"," ","G","e","n","e","r","a","t","e","d"," ","b","y"," ","h","o","l","o","-","b","u","i","l","d","\n">>
     \o <<"p","k","g","n","a","m","e"," ","="," ">> \o p.Name \o <<"\n">>
     \o <<"p","k","g","v","e","r"," ","="," ">> \o fullVersionString(p) \o <<"\n">>
     \o <<"p","k","g","d","e","s","c"," ","="," ">> \o desc \o <<"\n">>
     \o <<"u","r","l"," ","="," ","\n">>
     \o (IF p.Author = <<>> THEN <<"p","a","c","k","a","g","e","r"," ","="," ","U","n","k","n","o","w","n"," ","P","a","c","k","a","g","e","r","\n">>
         ELSE <<"p","a","c","k","a","g","e","r"," ","="," ">> \o p.Author \o <<"\n">>)
     \o <<"s","i","z","e"," ","="," ">> \o Dec(InstalledSizeInBytes(t)) \o <<"\n">>
     \o <<"a","r","c","h"," ","="," ">> \o ArchString(p.Architecture) \o <<"\n">>
     \o <<"l","i","c","e","n","s","e"," ","="," ","c","u","s","t","o","m",":","n","o","n","e","\n">>

\* the fixed lines after the relationship blocks
PKGINFOTail ==
  <<"m","a","k","e","d","e","p","e","n","d"," ","="," ","h","o","l","o","-","b","u","i","l","d","\n">>
  \o <<"m","a","k","e","p","k","g","o","p","t"," ","="," ","!","s","t","r","i","p","\n">>
  \o <<"m","a","k","e","p","k","g","o","p","t"," ","="," ","d","o","c","s","\n">>
  \o <<"m","a","k","e","p","k","g","o","p","t"," ","="," ","l","i","b","t","o","o","l","\n">>
  \o <<"m","a","k","e","p","k","g","o","p","t"," ","="," ","s","t","a","t","i","c","l","i","b","s","\n">>
  \o <<"m","a","k","e","p","k","g","o","p","t"," ","="," ","e","m","p","t","y","d","i","r","s","\n">>
  \o <<"m","a","k","e","p","k","g","o","p","t"," ","="," ","!","z","i","p","m","a","n","\n">>
  \o <<"m","a","k","e","p","k","g","o","p","t"," ","="," ","!","p","u","r","g","e","\n">>
  \o <<"m","a","k","e","p","k","g","o","p","t"," ","="," ","!","u","p","x","\n">>
  \o <<"m","a","k","e","p","k","g","o","p","t"," ","="," ","!","d","e","b","u","g","\n">>

\* writePKGINFO reaches compileBackupMarkers when the replaces, conflict and
\* provides blocks compiled
BackupScanned(p) ==
  /\ compilePackageRequirements(<<"r","e","p","l","a","c","e","s">>, p.Replaces).err = None
  /\ compilePackageRequirements(<<"c","o","n","f","l","i","c","t">>, p.Conflicts).err = None
  /\ compilePackageRequirements(<<"p","r","o","v","i","d","e","s">>, p.Provides).err = None

\* writePKGINFO storing the member before it looks at the depend block's error
writePKGINFO_StoreFirst(p, t, backup) ==
  LET replaces == compilePackageRequirements(<<"r","e","p","l","a","c","e","s">>, p.Replaces)
      conflicts == compilePackageRequirements(<<"c","o","n","f","l","i","c","t">>, p.Conflicts)
      provides == compilePackageRequirements(<<"p","r","o","v","i","d","e","s">>, p.Provides)
      requires == compilePackageRequirements(<<"d","e","p","e","n","d">>, p.Requires)
      contents == PKGINFOHead(p, t) \o replaces.text \o conflicts.text \o provides.text
                  \o backup \o requires.text \o PKGINFOTail
      stored == Put(t, PKGINFO, RegularFile(contents, 420))
  IN IF replaces.err # None THEN [err |-> replaces.err, tree |-> t]
     ELSE IF conflicts.err # None THEN [err |-> conflicts.err, tree |-> t]
     ELSE IF provides.err # None THEN [err |-> provides.err, tree |-> t]
     ELSE IF requires.err # None THEN [err |-> requires.err, tree |-> stored]
     ELSE [err |-> None, tree |-> stored]

\* backup is what compileBackupMarkers(pkg) returns for the walk of t
writePKGINFO(p, t, backup) ==
  LET replaces == compilePackageRequirements(<<"r","e","p","l","a","c","e","s">>, p.Replaces)
      conflicts == compilePackageRequirements(<<"c","o","n","f","l","i","c","t">>, p.Conflicts)
      provides == compilePackageRequirements(<<"p","r","o","v","i","d","e","s">>, p.Provides)
      requires == compilePackageRequirements(<<"d","e","p","e","n","d">>, p.Requires)
      contents == PKGINFOHead(p, t) \o replaces.text \o conflicts.text \o provides.text
                  \o backup \o requires.text \o PKGINFOTail
  IN IF replaces.err # None THEN [err |-> replaces.err, tree |-> t]
     ELSE IF conflicts.err # None THEN [err |-> conflicts.err, tree |-> t]
     ELSE IF provides.err # None THEN [err |-> provides.err, tree |-> t]
     ELSE IF requires.err # None THEN [err |-> requires.err, tree |-> t]
     ELSE [err |-> None, tree |-> Put(t, PKGINFO, RegularFile(contents, 420))]

(***************************************************************************)
(* writeINSTALL                                                            *)
(***************************************************************************)
\* pkg.Script(action)
Script(p, action) == IF action = "SetupAction" THEN p.Setup ELSE p.Cleanup

INSTALLContents(p) ==
  (IF Script(p, "SetupAction") # <<>>
   THEN <<"p","o","s","t","_","i","n","s","t","a","l","l","(",")"," ","{","\n">> \o Script(p, "SetupAction")
        \o <<"\n","}","\n","p","o","s","t","_","u","p","g","r","a","d","e","(",")"," ","{","\n","p","o","s","t","_","i","n","s","t","a","l","l","\n","}","\n">>
   ELSE <<>>)
  \o (IF Script(p, "CleanupAction") # <<>>
      THEN <<"p","o","s","t","_","r","e","m","o","v","e","(",")"," ","{","\n">> \o Script(p, "CleanupAction") \o <<"\n","}","\n">>
      ELSE <<>>)

\* writeINSTALL without the test for empty contents
writeINSTALL_Always(p, t) == Put(t, INSTALL, RegularFile(INSTALLContents(p), 420))

writeINSTALL(p, t) ==
  IF INSTALLContents(p) = <<>> THEN t
  ELSE Put(t, INSTALL, RegularFile(INSTALLContents(p), 420))

(***************************************************************************)
(* writeMTREE                                                              *)
(***************************************************************************)
\* the fingerprint of a file's content
RECURSIVE Checksum(_)
Checksum(s) ==
  IF s = <<>> THEN 7
  ELSE IF Len(s) = 1 THEN Code(s[1])
  ELSE LET half == Len(s) \div 2
       IN (31 * Checksum(SubSeq(s, 1, half)) + Checksum(SubSeq(s, half + 1, Len(s)))) % 65536

TypeName(node) ==
  CASE node.Type = "RegularFile" -> <<"f","i","l","e">>
    [] node.Type = "Directory" -> <<"d","i","r">>
    [] node.Type = "Symlink" -> <<"l","i","n","k">>

RECURSIVE MTREELines(_, _)
MTREELines(t, paths) ==
  IF paths = <<>> THEN <<>>
  ELSE LET node == t[Head(paths)]
       IN <<".","/">> \o Head(paths) \o <<" ","t","y","p","e","=">> \o TypeName(node) \o <<" ","m","o","d","e","=">> \o Dec(node.Mode)
          \o <<" ","s","i","z","e","=">> \o Dec(Len(node.Content)) \o <<" ","d","i","g","e","s","t","=">> \o Dec(Checksum(node.Content))
          \o <<"\n">> \o MTREELines(t, Tail(paths))

\* makeMTREE: fails when reading or hashing a file fails
makeMTREE(t, ioError) ==
  IF ioError THEN [err |-> "IOError", contents |-> <<>>]
  ELSE [err |-> None, contents |-> MTREELines(t, SortedPaths(t))]

writeMTREE(t, ioError) ==
  LET m == makeMTREE(t, ioError)
  IN IF m.err # None THEN [err |-> m.err, tree |-> t]
     ELSE [err |-> None, tree |-> Put(t, MTREE, RegularFile(m.contents, 420))]

(***************************************************************************)
(* pkg.FSRoot.ToTarXZArchive                                               *)
(***************************************************************************)
\* the archive: the entries of the tree in ascending path order
Members(t) == [i \in 1..Cardinality(DOMAIN t) |->
                 [Path |-> SortedPaths(t)[i], Node |-> t[SortedPaths(t)[i]]]]

\* on failure the buffer holds what was written before the error
ToTarXZArchive(t, ioError, written) ==
  IF ioError THEN [err |-> "IOError", bytes |-> SubSeq(Members(t), 1, written)]
  ELSE [err |-> None, bytes |-> Members(t)]

(***************************************************************************)
(* Build                                                                   *)
(***************************************************************************)
Step(op, failed, before, after) == [op |-> op, failed |-> failed, pre |-> before, post |-> after]

\* Build from the archive serializer on: t3 is the tree writeMTREE left
BuildArchive(log, t3, r4) ==
  [bytes |-> r4.bytes, err |-> r4.err, tree |-> t3,
   steps |-> log \o <<Step("ToTarXZArchive", r4.err # None, t3, t3)>>]

\* Build from writeMTREE's return on: t2 is the tree writeINSTALL left
BuildMTREE(log, t2, r3, archiveError, written) ==
  IF r3.err # None
  THEN [bytes |-> <<>>, err |-> "Failed to write .MTREE", tree |-> r3.tree,
        steps |-> log \o <<Step("writeMTREE", TRUE, t2, r3.tree)>>]
  ELSE BuildArchive(log \o <<Step("writeMTREE", FALSE, t2, r3.tree)>>, r3.tree,
                    ToTarXZArchive(r3.tree, archiveError, written))

\* Build from writeINSTALL's return on: t1 is the tree writePKGINFO left
BuildINSTALL(log, t1, t2, mtreeError, archiveError, written) ==
  BuildMTREE(log \o <<Step("writeINSTALL", FALSE, t1, t2)>>, t2, writeMTREE(t2, mtreeError),
             archiveError, written)

\* Build writing the manifest before the install script
BuildPKGINFO_ManifestFirst(p, log, t0, r1, mtreeError, archiveError, written) ==
  IF r1.err # None
  THEN [bytes |-> <<>>, err |-> "Failed to write .PKGINFO", tree |-> r1.tree,
        steps |-> log \o <<Step("writePKGINFO", TRUE, t0, r1.tree)>>]
  ELSE \* the manifest is computed over the tree writePKGINFO left
       IF mtreeError
       THEN [bytes |-> <<>>, err |-> "Failed to write .MTREE", tree |-> r1.tree,
             steps |-> log \o <<Step("writePKGINFO", FALSE, t0, r1.tree),
                                Step("writeMTREE", TRUE, r1.tree, r1.tree)>>]
       ELSE BuildArchive(log \o <<Step("writePKGINFO", FALSE, t0, r1.tree),
                                  Step("writeMTREE", FALSE, r1.tree, writeMTREE(r1.tree, FALSE).tree),
                                  Step("writeINSTALL", FALSE, writeMTREE(r1.tree, FALSE).tree,
                                       writeINSTALL(p, writeMTREE(r1.tree, FALSE).tree))>>,
                         writeINSTALL(p, writeMTREE(r1.tree, FALSE).tree),
                         ToTarXZArchive(writeINSTALL(p, writeMTREE(r1.tree, FALSE).tree),
                                        archiveError, written))

\* Build from writePKGINFO's return on: t0 is the tree PrepareBuild left
BuildPKGINFO(p, log, t0, r1, mtreeError, archiveError, written) ==
  IF r1.err # None
  THEN [bytes |-> <<>>, err |-> "Failed to write .PKGINFO", tree |-> r1.tree,
        steps |-> log \o <<Step("writePKGINFO", TRUE, t0, r1.tree)>>]
  ELSE BuildINSTALL(log \o <<Step("writePKGINFO", FALSE, t0, r1.tree)>>, r1.tree,
                    writeINSTALL(p, r1.tree), mtreeError, archiveError, written)

\* Build from PrepareBuild's return on
BuildPrepared(p, t, t0, backup, mtreeError, archiveError, written) ==
  BuildPKGINFO(p, <<Step("PrepareBuild", FALSE, t, t0)>>, t0, writePKGINFO(p, t0, backup),
               mtreeError, archiveError, written)

\* the result of Build: the returned pair, the tree it leaves, the steps it ran
BuildRun(p, t, backup, mtreeError, archiveError, written) ==
  BuildPrepared(p, t, PrepareBuild(t), backup, mtreeError, archiveError, written)

(***************************************************************************)
(* The Packages and payload trees the model starts from.                   *)
(***************************************************************************)
NoTree == [p \in {} |-> Directory]

\* a top-level file, and a directory holding a file and a symlink
EtcTree ==
  Put(Put(Put(Put(NoTree, <<"e","t","c">>, Directory), <<"e","t","c","/","c">>, RegularFile(<<"x","=","1","\n">>, 420)),
      <<"e","t","c","/","l">>, Symlink(<<"c">>)), <<"a">>, RegularFile(<<"#","!","\n">>, 493))

\* a file under usr/share/holo/ and a file beside that directory
HoloTree ==
  Put(Put(Put(Put(Put(NoTree, <<"u","s","r">>, Directory), <<"u","s","r","/","s","h","a","r","e">>, Directory),
      <<"u","s","r","/","s","h","a","r","e","/","h","o","l","o">>, Directory), <<"u","s","r","/","s","h","a","r","e","/","h","o","l","o","/","f">>, RegularFile(<<"d","a","t","a">>, 420)),
      <<"u","s","r","/","s","h","a","r","e","/","h","o","l","o","x">>, RegularFile(<<"#","!","\n">>, 493))

Trees == {NoTree, EtcTree, HoloTree}

\* the versions the package-version grammar of Validate admits
Versions == {v \in {<<"1",".","0">>, <<"2","_","b">>, <<"1",":","0">>, <<>>} : versionRx(v)}
Releases == (0..MaxRelease) \cup {10 + MaxRelease}
Epochs == 0..MaxEpoch
\* the enumeration's values, and one the map has no entry for
Architectures == {"ArchitectureX86_64", "ArchitectureAny", "ArchitectureUnmapped"}

NoRelations == [Replaces |-> <<>>, Conflicts |-> <<>>, Provides |-> <<>>, Requires |-> <<>>]
GoodRelations ==
  [Replaces |-> <<Relation(<<"o","l","d">>, <<>>, <<>>)>>,
   Conflicts |-> <<Relation(<<"e","x","c","e","p","t",":","g","r","o","u","p",":","x">>, <<>>, <<>>)>>,
   Provides |-> <<Relation(<<"f","o","o","-","a","p","i">>, <<"=">>, <<"2",":","1",".","0","-","1">>)>>,
   Requires |-> <<Relation(<<"b","a","r">>, <<">","=">>, <<"1",".","0">>), Relation(<<"b","a","z">>, <<>>, <<>>)>>]
\* a conflict whose name the grammar rejects
BadRelations == [NoRelations EXCEPT !.Conflicts = <<Relation(<<"B","a","d">>, <<>>, <<>>)>>]
\* a dependency whose version the grammar rejects
BadDepend == [NoRelations EXCEPT !.Requires = <<Relation(<<"b","a","r">>, <<">","=">>, <<"1",".","0","-","0">>)>>]
RelationSets == {NoRelations, GoodRelations, BadRelations, BadDepend}

SetupScripts == {<<>>, <<"a","\n","b">>}
CleanupScripts == {<<>>, <<"c">>}

Package(version, release, epoch, arch, description, author, relations, setup, cleanup) ==
  [Name |-> <<"f","o","o">>, Version |-> version, Release |-> release, Epoch |-> epoch,
   Architecture |-> arch, Description |-> description, Author |-> author,
   Replaces |-> relations.Replaces, Conflicts |-> relations.Conflicts,
   Provides |-> relations.Provides, Requires |-> relations.Requires,
   Setup |-> setup, Cleanup |-> cleanup]

\* Packages that differ in version, release and epoch
VersionConfigs ==
  {[pkg |-> Package(v, r, e, "ArchitectureX86_64", <<"f","o","o">>, <<>>, NoRelations, <<>>, <<>>),
    tree |-> NoTree] :
     v \in Versions, r \in Releases, e \in Epochs}

\* Packages that differ in architecture
ArchConfigs ==
  {[pkg |-> Package(<<"1",".","0">>, 1, e, a, <<"f","o","o">>, <<>>, NoRelations, <<>>, <<>>), tree |-> EtcTree] :
     e \in {0, MaxEpoch}, a \in Architectures}

\* Packages that differ in payload tree, scripts and relationships
TreeConfigs ==
  {[pkg |-> Package(<<"1",".","0">>, 1, 0, "ArchitectureX86_64", <<" ","a"," ","\t"," ","b","\n">>, <<"m","e">>, rel, s, c),
    tree |-> t] :
     t \in Trees, rel \in RelationSets, s \in SetupScripts, c \in CleanupScripts}

Configs == VersionConfigs \cup ArchConfigs \cup TreeConfigs

NoReturn == [bytes |-> <<>>, err |-> None]

Init ==
  /\ \E c \in Configs : pkg = c.pkg /\ tree = c.tree
  /\ ret = NoReturn
  /\ prevRet = NoReturn
  /\ pre = tree
  /\ steps = <<>>
  /\ builds = 0
  /\ fileName = None
  /\ markers = None

(***************************************************************************)
(* The operations.                                                         *)
(***************************************************************************)
\* g.Build(): the walk visits the entries in some order, reading a file for
\* the manifest or writing the archive may fail, and a failing archive writer
\* has written nothing or the first member.
\* pre and prevRet keep the tree and the return value from before the call,
\* markers what compileBackupMarkers returned to it.
Build ==
  /\ builds < MaxBuilds
  /\ \E backup \in BackupMarkerOutputs(PrepareBuild(tree)) :
     \E mtreeError \in BOOLEAN : \E archiveError \in BOOLEAN : \E written \in 0..1 :
     \E r \in {BuildRun(pkg, tree, backup, mtreeError, archiveError, written)} :
          /\ tree' = r.tree
          /\ ret' = [bytes |-> r.bytes, err |-> r.err]
          /\ steps' = r.steps
          /\ markers' = IF BackupScanned(pkg) THEN backup ELSE None
  /\ prevRet' = ret
  /\ pre' = tree
  /\ builds' = builds + 1
  /\ UNCHANGED <<pkg, fileName>>

\* g.RecommendedFileName(), which is called after Build()
FileName ==
  /\ builds > 0
  /\ fileName' = RecommendedFileName(pkg)
  /\ UNCHANGED <<pkg, tree, ret, prevRet, pre, steps, builds, markers>>

Next == Build \/ FileName

Spec == Init /\ [][Next]_vars

(***************************************************************************)
(* Reading the generated members back.                                     *)
(***************************************************************************)
\* the lines of a text, without their line ends
RECURSIVE Lines(_)
Lines(s) ==
  IF s = <<>> THEN <<>>
  ELSE LET n == CHOOSE i \in 1..(Len(s) + 1) :
                  /\ (i = Len(s) + 1 \/ s[i] = "\n")
                  /\ \A j \in 1..(i - 1) : s[j] # "\n"
       IN <<SubSeq(s, 1, n - 1)>> \o Lines(SubSeq(s, n + 1, Len(s)))

\* the values of the lines "key = value" of a control record
Values(content, key) ==
  LET ls == Lines(content)
  IN {SubSeq(ls[i], Len(key) + 4, Len(ls[i])) : i \in {k \in 1..Len(ls) : HasPrefix(ls[k], key \o <<" ","="," ">>)}}

\* how often character c occurs in s
Count(s, c) == Cardinality({i \in 1..Len(s) : s[i] = c})

\* whether sub occurs in s
Contains(s, sub) == \E i \in 0..(Len(s) - Len(sub)) : SubSeq(s, i + 1, i + Len(sub)) = sub

\* the number a decimal numeral stands for
RECURSIVE Number(_)
Number(s) == IF s = <<>> THEN 0 ELSE 10 * Number(SubSeq(s, 1, Len(s) - 1)) + (Code(s[Len(s)]) - Code("0"))

\* a decimal numeral without sign or leading zero
IsNumeral(s) == s # <<>> /\ All(s, Digit) /\ (Len(s) > 1 => s[1] # "0")

Reserved == {PKGINFO, INSTALL, MTREE}

\* the control record in the tree
Record == tree[PKGINFO].Content

\* the paths of the members of an archive
ArchivePaths(bytes) == {bytes[i].Path : i \in 1..Len(bytes)}

\* the paths a manifest lists
ManifestPaths(content) ==
  LET ls == Lines(content)
  IN {SubSeq(ls[i], 3, (CHOOSE k \in 1..Len(ls[i]) : ls[i][k] = " " /\ \A j \in 1..(k - 1) : ls[i][j] # " ") - 1) :
        i \in 1..Len(ls)}

(***************************************************************************)
(* C1: two Builds in a row on the same Package, nothing else touching the  *)
(* Package or its tree, return byte-identical archives.                    *)
(***************************************************************************)
C1_SecondBuildSameArchive ==
  (builds >= 2 /\ prevRet.err = None /\ ret.err = None) => ret.bytes = prevRet.bytes

(***************************************************************************)
(* C2: whenever Build returns an error, the returned bytes are empty and   *)
(* the tree holds no generated member that was not there before the call.  *)
(***************************************************************************)
C2_ErrorLeavesNothing ==
  (builds > 0 /\ ret.err # None) =>
    /\ ret.bytes = <<>>
    /\ \A m \in Reserved : m \in DOMAIN tree => m \in DOMAIN pre

(***************************************************************************)
(* C3: for a Package whose Architecture has no entry in archMap, Build     *)
(* returns an error and writes no control record with an empty arch line.  *)
(***************************************************************************)
C3_UnmappedArchitectureFails ==
  (builds > 0 /\ pkg.Architecture \notin DOMAIN archMap) =>
    /\ ret.err # None
    /\ PKGINFO \in DOMAIN tree => <<>> \notin Values(Record, <<"a","r","c","h">>)

(***************************************************************************)
(* C4: after Build on a tree without .INSTALL, the tree holds .INSTALL     *)
(* exactly if the setup or the cleanup body is non-empty; with a setup     *)
(* body the member holds post_install wrapping it and a post_upgrade that  *)
(* only calls post_install; with a cleanup body alone it holds post_remove *)
(* and neither post_install nor post_upgrade.                              *)
(***************************************************************************)
InstallMemberRight ==
  /\ INSTALL \in DOMAIN tree <=> (pkg.Setup # <<>> \/ pkg.Cleanup # <<>>)
  /\ pkg.Setup # <<>> =>
       /\ Contains(tree[INSTALL].Content, <<"p","o","s","t","_","i","n","s","t","a","l","l","(",")"," ","{","\n">> \o pkg.Setup \o <<"\n","}","\n">>)
       /\ Contains(tree[INSTALL].Content, <<"p","o","s","t","_","u","p","g","r","a","d","e","(",")"," ","{","\n","p","o","s","t","_","i","n","s","t","a","l","l","\n","}","\n">>)
  /\ pkg.Cleanup # <<>> =>
       Contains(tree[INSTALL].Content, <<"p","o","s","t","_","r","e","m","o","v","e","(",")"," ","{","\n">> \o pkg.Cleanup \o <<"\n","}","\n">>)
  /\ (pkg.Setup = <<>> /\ pkg.Cleanup # <<>>) =>
       /\ ~Contains(tree[INSTALL].Content, <<"p","o","s","t","_","i","n","s","t","a","l","l">>)
       /\ ~Contains(tree[INSTALL].Content, <<"p","o","s","t","_","u","p","g","r","a","d","e">>)

\* C4 as stated: after every Build
C4_InstallAfterEveryBuild ==
  (builds > 0 /\ INSTALL \notin DOMAIN pre) => InstallMemberRight

\* C4 as amended: after every Build in which writePKGINFO returned no error
C4_InstallAfterControlRecord ==
  (builds > 0 /\ INSTALL \notin DOMAIN pre /\ Len(steps) > 2) => InstallMemberRight

C4_Witness ==
  /\ builds > 0 /\ INSTALL \notin DOMAIN pre /\ Len(steps) > 2
  /\ pkg.Setup = <<>> /\ pkg.Cleanup # <<>> /\ INSTALL \in DOMAIN tree

(***************************************************************************)
(* C5: the result of RecommendedFileName is <name>-<pkgver>-<arch>         *)
(* .pkg.tar.xz, where <pkgver> is the value of the pkgver line Build wrote *)
(* into .PKGINFO for the same Package.                                     *)
(***************************************************************************)
C5_FileNameCarriesPkgver ==
  (fileName # None /\ PKGINFO \in DOMAIN tree) =>
    \E ver \in Values(Record, <<"p","k","g","v","e","r">>) :
      /\ Values(Record, <<"p","k","g","v","e","r">>) = {ver}
      /\ fileName = pkg.Name \o <<"-">> \o ver \o <<"-">> \o ArchString(pkg.Architecture) \o <<".","p","k","g",".","t","a","r",".","x","z">>

C5_Witness ==
  /\ fileName # None /\ PKGINFO \in DOMAIN tree /\ pkg.Epoch > 0 /\ pkg.Release >= 10

(***************************************************************************)
(* C6: with epoch 0 the output of fullVersionString holds no ":" and is    *)
(* <version>-<release>; with epoch > 0 it holds exactly one ":", with the  *)
(* decimal epoch before it and <version>-<release> after it.               *)
(***************************************************************************)
VersionRelease(out) ==
  \E k \in 1..Len(out) :
    /\ out[k] = "-"
    /\ SubSeq(out, 1, k - 1) = pkg.Version
    /\ IsNumeral(SubSeq(out, k + 1, Len(out)))
    /\ Number(SubSeq(out, k + 1, Len(out))) = pkg.Release

BackupOutputRight(t, out) ==
  LET ls == Lines(out)
      wanted == {p \in DOMAIN t : t[p].Type = "RegularFile" /\ ~HasPrefix(p, HoloPrefix)}
  IN /\ out = <<>> \/ out[Len(out)] = "\n"
     /\ \A i \in 1..Len(ls) :
          HasPrefix(ls[i], <<"b","a","c","k","u","p"," ","="," ">>) /\ SubSeq(ls[i], 10, Len(ls[i])) \in wanted
     /\ \A p \in wanted : Cardinality({i \in 1..Len(ls) : ls[i] = <<"b","a","c","k","u","p"," ","="," ">> \o p}) = 1
     /\ \A i \in 1..(Len(ls) - 1) : Less(ls[i], ls[i + 1])

C7_BackupMarkers ==
  LET outs == BackupMarkerOutputs(tree)
  IN /\ Cardinality(outs) = 1
     /\ Cardinality(DOMAIN tree) <= MaxListed =>
          {compileBackupMarkers(tree, o) : o \in Perms(DOMAIN tree)} = outs
     /\ \A out \in outs : BackupOutputRight(tree, out)
     /\ markers # None => BackupOutputRight(pre, markers)

C7_Witness ==
  /\ markers # None /\ markers # <<>> /\ Cardinality(WalkOrders(pre)) > 1
  /\ \E p \in DOMAIN pre : pre[p].Type = "RegularFile" /\ HasPrefix(p, HoloPrefix)
  /\ \E p \in DOMAIN pre : pre[p].Type = "Directory"

(***************************************************************************)
(* C8: no control record written by any Build holds a backup line naming   *)
(* .PKGINFO, .INSTALL or .MTREE.                                           *)
(***************************************************************************)
C8_NoBackupOfGeneratedMembers ==
  PKGINFO \in DOMAIN tree => Values(Record, <<"b","a","c","k","u","p">>) \cap Reserved = {}

(***************************************************************************)
(* C9: Build runs PrepareBuild, writePKGINFO, writeINSTALL, writeMTREE and *)
(* the archive serializer in this order, each on the tree the step before  *)
(* left, and no step after one that failed; in a successful Build the      *)
(* manifest lists .PKGINFO and, when there is one, .INSTALL, and the       *)
(* archive holds all generated members.                                    *)
(***************************************************************************)
BuildOrder == <<"PrepareBuild", "writePKGINFO", "writeINSTALL", "writeMTREE", "ToTarXZArchive">>

C9_FixedOrder ==
  builds > 0 =>
    /\ Len(steps) \in 1..Len(BuildOrder)
    /\ \A i \in 1..Len(steps) : steps[i].op = BuildOrder[i]
    /\ steps[1].pre = pre
    /\ \A i \in 1..(Len(steps) - 1) : ~steps[i].failed /\ steps[i + 1].pre = steps[i].post
    /\ steps[Len(steps)].post = tree
    /\ ret.err # None <=> steps[Len(steps)].failed
    /\ ret.err = None =>
         /\ Len(steps) = Len(BuildOrder)
         /\ PKGINFO \in DOMAIN steps[4].pre
         /\ (pkg.Setup # <<>> \/ pkg.Cleanup # <<>>) => INSTALL \in DOMAIN steps[4].pre
         /\ ManifestPaths(tree[MTREE].Content) = DOMAIN steps[4].pre
         /\ PKGINFO \in ManifestPaths(tree[MTREE].Content)
         /\ ArchivePaths(ret.bytes) = DOMAIN tree
         /\ {PKGINFO, MTREE} \subseteq ArchivePaths(ret.bytes)
         /\ INSTALL \in DOMAIN steps[4].pre => INSTALL \in ArchivePaths(ret.bytes)
         /\ \A i \in 1..Len(ret.bytes) : ret.bytes[i].Node = tree[ret.bytes[i].Path]

C9_Witness ==
  /\ builds = 1 /\ ret.err = None /\ Len(steps) = 5
  /\ INSTALL \in ManifestPaths(tree[MTREE].Content) /\ INSTALL \notin DOMAIN pre

(***************************************************************************)
(* C10: writePKGINFO, writeINSTALL and writeMTREE change the tree only at  *)
(* .PKGINFO, .INSTALL and .MTREE: every other entry stays as it was, none  *)
(* is removed, each member written is a RegularFile with mode 0644, and a  *)
(* writer that returns an error leaves the tree as it found it.            *)
(***************************************************************************)
OnlyMembersWritten(before, after) ==
  /\ DOMAIN before \subseteq DOMAIN after
  /\ (DOMAIN after) \ (DOMAIN before) \subseteq Reserved
  /\ \A p \in DOMAIN before : p \notin Reserved => after[p] = before[p]
  /\ \A p \in Reserved \cap DOMAIN after :
       (p \notin DOMAIN before \/ after[p] # before[p]) =>
         (after[p].Type = "RegularFile" /\ after[p].Mode = 420)

C10_WritersFrame ==
  builds > 0 =>
    /\ OnlyMembersWritten(pre, tree)
    /\ \A i \in 1..Len(steps) :
         steps[i].op \in {"writePKGINFO", "writeINSTALL", "writeMTREE"} =>
           /\ OnlyMembersWritten(steps[i].pre, steps[i].post)
           /\ steps[i].failed => steps[i].post = steps[i].pre

C10_Witness ==
  /\ builds = 2 /\ PKGINFO \in DOMAIN pre /\ tree[PKGINFO] # pre[PKGINFO]
  /\ \E p \in DOMAIN pre : p \notin Reserved
  /\ steps[Len(steps)].op = "writeMTREE" /\ steps[Len(steps)].failed

====
